---- MODULE Spec2Model ----
(***************************************************************************)
(* A model of the ingestion pipeline of generate_heatmap.py:               *)
(* extract_locations (format sniffing, the four schema extractors, the     *)
(* error handling around them), _parse_timestamp and the coordinate string *)
(* decoder.                                                                *)
(*                                                                         *)
(* JSON values, as ijson hands them to the code, are tagged records        *)
(* [t |-> tag, v |-> payload]:                                             *)
(*   "null"            None                                                *)
(*   "bool"            True / False                         v: BOOLEAN     *)
(*   "int"             a Python int                         v: Int         *)
(*   "dec"             a decimal.Decimal (ijson's reading of a JSON number *)
(*                     with a fraction or an exponent)      v: <<m, e>>    *)
(*                     standing for m * 10^(-e)                            *)
(*   "float"           a Python float computed by the code  v: <<m, e>>    *)
(*   "str"             a string                             v: sequence of *)
(*                     characters (one-character strings; a date-time text *)
(*                     is one atom, see IsoTable)                          *)
(*   "list"            a list                               v: sequence    *)
(*   "dict"            a dict                               v: function    *)
(*                     from keys to values                                 *)
(*   "exc"             not a value: the evaluation raised an exception     *)
(***************************************************************************)
EXTENDS Integers, Sequences, FiniteSets, TLC

(***************************************************************************)
(* Bounds of the model.                                                    *)
(***************************************************************************)
\* The bytes f.read(...) returns at most; stands for the 4096 of the source.
ReadSize == 8
\* The number of chunks the head of a file is assembled from (SniffSpec).
MaxChunks == 4
\* The number of top-level elements of a document.
MaxItems == 2
\* A progress line every so many elements; stands for the 20000 / 50000.
ProgressEvery == 2
\* The largest epoch millisecond among the integers and digit texts handed
\* to _parse_timestamp on its own.
MaxMs == 11
\* The number of pieces a coordinate text is made of.
MaxTokens == 3

(***************************************************************************)
(* JSON values and the Python operations the code applies to them.         *)
(***************************************************************************)
None == [t |-> "null", v |-> 0]
Exc == [t |-> "exc", v |-> 0]
JBool(b) == [t |-> "bool", v |-> b]
JInt(n) == [t |-> "int", v |-> n]
JDec(m, e) == [t |-> "dec", v |-> <<m, e>>]
JFloat(m, e) == [t |-> "float", v |-> <<m, e>>]
JStr(s) == [t |-> "str", v |-> s]
JList(l) == [t |-> "list", v |-> l]
JDict(d) == [t |-> "dict", v |-> d]
EmptyDict == JDict(<<>>)

IsExc(x) == x.t = "exc"

\* bool(x): Python truthiness.
Truthy(x) ==
    CASE x.t = "null" -> FALSE
      [] x.t = "bool" -> x.v
      [] x.t = "int" -> x.v # 0
      [] x.t = "dec" -> x.v[1] # 0
      [] x.t = "float" -> x.v[1] # 0
      [] x.t = "str" -> x.v # <<>>
      [] x.t = "list" -> x.v # <<>>
      [] x.t = "dict" -> DOMAIN x.v # {}
      [] OTHER -> FALSE

\* `a or b`.
PyOr(a, b) == IF IsExc(a) THEN Exc ELSE IF Truthy(a) THEN a ELSE b

\* `k in x`: membership for a dict, TypeError for None, a number or a bool;
\* for a string a substring test and for a list an element test, neither of
\* which a key name satisfies in the documents modelled here.
PyIn(k, x) ==
    CASE x.t = "dict" -> JBool(k \in DOMAIN x.v)
      [] x.t \in {"str", "list"} -> JBool(FALSE)
      [] OTHER -> Exc

\* x.get(k, dflt): AttributeError unless x is a dict.
PyGetD(x, k, dflt) ==
    IF x.t # "dict" THEN Exc
    ELSE IF k \in DOMAIN x.v THEN x.v[k] ELSE dflt

\* x.get(k)
PyGet(x, k) == PyGetD(x, k, None)

\* x[k]: KeyError / TypeError unless x is a dict holding k.
PyIndex(x, k) ==
    IF x.t = "dict" /\ k \in DOMAIN x.v THEN x.v[k] ELSE Exc

RECURSIVE Pow10(_)
Pow10(e) == IF e = 0 THEN 1 ELSE 10 * Pow10(e - 1)

\* Truncation toward zero of m / d, for d > 0.
TruncDiv(m, d) == IF m >= 0 THEN m \div d ELSE -((-m) \div d)

Digits == {"0", "1", "2", "3", "4", "5", "6", "7", "8", "9"}
DigitVal(c) ==
    CASE c = "0" -> 0 [] c = "1" -> 1 [] c = "2" -> 2 [] c = "3" -> 3
      [] c = "4" -> 4 [] c = "5" -> 5 [] c = "6" -> 6 [] c = "7" -> 7
      [] c = "8" -> 8 [] c = "9" -> 9

\* str.isdigit(): non-empty and every character a digit.
IsDigitStr(s) == s # <<>> /\ \A k \in 1..Len(s) : s[k] \in Digits

RECURSIVE DigitsToInt(_)
DigitsToInt(s) ==
    IF s = <<>> THEN 0
    ELSE 10 * DigitsToInt(SubSeq(s, 1, Len(s) - 1)) + DigitVal(s[Len(s)])

\* int(x): an int as it is, a bool as 0/1, a Decimal truncated, a string of
\* an optional sign and digits parsed; ValueError / TypeError otherwise.
PyInt(x) ==
    CASE x.t = "int" -> x
      [] x.t = "bool" -> JInt(IF x.v THEN 1 ELSE 0)
      [] x.t \in {"dec", "float"} -> JInt(TruncDiv(x.v[1], Pow10(x.v[2])))
      [] x.t = "str" ->
           IF IsDigitStr(x.v) THEN JInt(DigitsToInt(x.v))
           ELSE IF Len(x.v) > 1 /\ x.v[1] \in {"-", "+"} /\ IsDigitStr(Tail(x.v))
                THEN JInt((IF x.v[1] = "-" THEN -1 ELSE 1) * DigitsToInt(Tail(x.v)))
                ELSE Exc
      [] OTHER -> Exc

\* The first position >= p of s that holds no digit (Len(s) + 1 if none).
RECURSIVE DigitsEnd(_, _)
DigitsEnd(s, p) ==
    IF p <= Len(s) /\ s[p] \in Digits THEN DigitsEnd(s, p + 1) ELSE p

\* A decimal m * 10^(-e) without trailing zeros of the fraction.
RECURSIVE NormFloat(_, _)
NormFloat(m, e) ==
    IF e > 0 /\ m % 10 = 0 THEN NormFloat(m \div 10, e - 1) ELSE JFloat(m, e)

\* The float of digits.digits: body is the text without its sign, dot the
\* position of its point.
DecimalOf(neg, body, dot) ==
    NormFloat((IF neg THEN -1 ELSE 1) *
                  DigitsToInt(SubSeq(body, 1, dot - 1) \o SubSeq(body, dot + 1, Len(body))),
              Len(body) - dot)

\* Whether body is digits [. digits] with a digit somewhere, dot being the
\* first position of body that holds no digit.
IsDecimalText(body, dot) ==
    /\ body # <<>>
    /\ \/ dot > Len(body)
       \/ /\ body[dot] = "."
          /\ \A k \in (dot + 1)..Len(body) : body[k] \in Digits
          /\ (dot > 1 \/ dot < Len(body))

\* float(text) for a text without its sign.
FloatOfBody(neg, body, dot) ==
    IF ~IsDecimalText(body, dot) THEN Exc
    ELSE IF dot > Len(body)
         THEN NormFloat((IF neg THEN -1 ELSE 1) * DigitsToInt(body), 0)
         ELSE DecimalOf(neg, body, dot)

Unsigned(s) == IF s # <<>> /\ s[1] \in {"-", "+"} THEN Tail(s) ELSE s

\* float(x): ValueError / TypeError unless x is a number or a decimal text
\* ([sign] digits [. digits]; exponents, inf and nan are not in the model).
PyFloat(x) ==
    CASE x.t = "int" -> NormFloat(x.v, 0)
      [] x.t = "bool" -> NormFloat(IF x.v THEN 1 ELSE 0, 0)
      [] x.t \in {"dec", "float"} -> NormFloat(x.v[1], x.v[2])
      [] x.t = "str" ->
           FloatOfBody(x.v # <<>> /\ x.v[1] = "-", Unsigned(x.v),
                       DigitsEnd(Unsigned(x.v), 1))
      [] OTHER -> Exc

\* str(x) inside an f-string.
PyStr(x) ==
    CASE x.t = "str" -> x.v
      [] x.t = "null" -> <<"None">>
      [] OTHER -> <<"<", x.t, ">">>

\* Whether a for loop over x starts (TypeError otherwise), and the values
\* it visits: the elements of a list, the characters of a string, the keys
\* of a dict (all strings: which key comes first makes no difference to the
\* code here).
Iterable(x) == x.t \in {"list", "str", "dict"}
Iter(x) ==
    CASE x.t = "list" -> x.v
      [] x.t = "str" -> [k \in 1..Len(x.v) |-> JStr(<<x.v[k]>>)]
      [] x.t = "dict" -> [k \in 1..Cardinality(DOMAIN x.v) |-> JStr(<<"key">>)]

(***************************************************************************)
(* _parse_timestamp.                                                       *)
(***************************************************************************)
\* The date-time texts of the model, each one atom of a string, with the
\* epoch seconds datetime.fromisoformat gives it when read as UTC.  (Dates
\* of 1970: the milliseconds of a later year do not fit TLC's integers.)
IsoTable ==
    [a \in {"1970-01-01T00:00:05", "1970-01-01T02:00:00"} |->
        IF a = "1970-01-01T00:00:05" THEN 5 ELSE 7200]

\* The UTC offset, in seconds, of the local time zone of the machine: a
\* text with no offset is read as local time by datetime.timestamp().
LocalUtcOffset == 60 * 60

\* timestamp_data.replace('Z', '+00:00')
ReplaceZ(s) == [k \in 1..Len(s) |-> IF s[k] = "Z" THEN "+00:00" ELSE s[k]]

\* int(datetime.fromisoformat(s).timestamp() * 1000), or Exc (ValueError).
IsoToMs(s) ==
    IF Len(s) = 1 /\ s[1] \in DOMAIN IsoTable
    THEN JInt((IsoTable[s[1]] - LocalUtcOffset) * 1000)
    ELSE IF Len(s) = 2 /\ s[1] \in DOMAIN IsoTable /\ s[2] = "+00:00"
         THEN JInt(IsoTable[s[1]] * 1000)
         ELSE Exc

\* A conversion outside every try block.
OrRaise(x) == x

\* try: return x / except: return None (or pass, and None at the end).
OrNone(x) == IF IsExc(x) THEN None ELSE x

RECURSIVE _parse_timestamp(_)
_parse_timestamp(timestamp_data) ==
    IF ~Truthy(timestamp_data) THEN None
    ELSE IF timestamp_data.t \in {"int", "bool", "float"}
    THEN PyInt(timestamp_data)
    ELSE IF timestamp_data.t = "str"
    THEN IF IsDigitStr(timestamp_data.v)
         THEN JInt(DigitsToInt(timestamp_data.v))
         ELSE OrNone(IsoToMs(ReplaceZ(timestamp_data.v)))
    ELSE IF timestamp_data.t = "dict"
    THEN IF "timestampMs" \in DOMAIN timestamp_data.v
         THEN OrNone(PyInt(timestamp_data.v["timestampMs"]))
         ELSE IF "timestamp" \in DOMAIN timestamp_data.v
              THEN _parse_timestamp(timestamp_data.v["timestamp"])
              ELSE None
    ELSE None

(***************************************************************************)
(* The coordinate string decoder (the two copies of parse_lat_lng_string). *)
(***************************************************************************)
\* The match of \.\d+ at d1, after the digits that end before d1: the
\* position after it, 0 if there is none.
MatchFraction(s, d1, d2) ==
    IF d1 <= Len(s) /\ s[d1] = "." /\ d2 > d1 + 1 THEN d2 ELSE 0

\* The match of \d+\.\d+ at q, d1 being DigitsEnd(s, q).
MatchDigits(s, q, d1) ==
    IF d1 > q THEN MatchFraction(s, d1, DigitsEnd(s, d1 + 1)) ELSE 0

\* The position after the match of [-]?\d+\.\d+ that starts at p, 0 if none.
MatchAt(s, p) ==
    IF s[p] = "-" THEN MatchDigits(s, p + 1, DigitsEnd(s, p + 1))
    ELSE MatchDigits(s, p, DigitsEnd(s, p))

\* coord_regex.findall(s), scanning from position p: leftmost matches, not
\* overlapping.  FindNext continues after the attempt at p, which matched
\* up to e - 1 or (e = 0) did not match.
RECURSIVE FindAll(_, _)
FindNext(s, p, e) ==
    IF e = 0 THEN FindAll(s, p + 1)
    ELSE <<SubSeq(s, p, e - 1)>> \o FindAll(s, e)
FindAll(s, p) == IF p > Len(s) THEN <<>> ELSE FindNext(s, p, MatchAt(s, p))

\* float(c) of a text c matched by the pattern.
FloatOfMatch(c) ==
    DecimalOf(c[1] = "-", Unsigned(c), DigitsEnd(Unsigned(c), 1))

\* The first two numbers of two or more.
FirstTwoOrNone(coords) ==
    IF Len(coords) >= 2 THEN JList(<<coords[1], coords[2]>>) ELSE None

\* [coords[0], coords[1]] if len(coords) == 2 else None
PairOrNone(coords) ==
    IF Len(coords) = 2 THEN JList(<<coords[1], coords[2]>>) ELSE None

\* [float(c) for c in found]
Floats(found) == [k \in 1..Len(found) |-> FloatOfMatch(found[k])]

\* parse_lat_lng_string of _process_semantic_segments_format.
parse_lat_lng_string(lat_lng_str) ==
    IF lat_lng_str.t # "str" THEN None
    ELSE PairOrNone(Floats(FindAll(lat_lng_str.v, 1)))

\* parse_lat_lng_string of _process_root_array_format.
root_parse_lat_lng_string(lat_lng_str) ==
    IF lat_lng_str.t # "str" THEN None
    ELSE PairOrNone(Floats(FindAll(lat_lng_str.v, 1)))

(***************************************************************************)
(* Format sniffing (extract_locations, the head of the with block).        *)
(***************************************************************************)
Whitespace == {" ", "\n"}

\* f.read(n): the first n bytes of the file, or all of it.
Read(bytes, n) == SubSeq(bytes, 1, IF Len(bytes) < n THEN Len(bytes) ELSE n)

RECURSIVE LStrip(_)
LStrip(s) == IF s # <<>> /\ s[1] \in Whitespace THEN LStrip(Tail(s)) ELSE s

RECURSIVE RStrip(_)
RStrip(s) ==
    IF s # <<>> /\ s[Len(s)] \in Whitespace
    THEN RStrip(SubSeq(s, 1, Len(s) - 1)) ELSE s

\* bytes.strip()
Strip(s) == RStrip(LStrip(s))

StartsWith(s, c) == s # <<>> /\ s[1] = c

\* `k in s` for byte strings.
Contains(s, k) ==
    \E p \in 1..(Len(s) - Len(k) + 1) : SubSeq(s, p, p + Len(k) - 1) = k

\* The literals b'"locations"', b'"semanticSegments"', b'"timelineObjects"':
\* a quote, the word (one atom), a quote.
KeyLocations == <<"\"", "locations", "\"">>
KeySemanticSegments == <<"\"", "semanticSegments", "\"">>
KeyTimelineObjects == <<"\"", "timelineObjects", "\"">>

\* DetectFormat with the three keys looked for in the opposite order.
DetectFormatReversed(prefix) ==
    IF StartsWith(prefix, "[") THEN "root_array"
    ELSE IF ~StartsWith(prefix, "{") THEN "none"
    ELSE IF Contains(prefix, KeyTimelineObjects) THEN "timelineObjects"
    ELSE IF Contains(prefix, KeySemanticSegments) THEN "semanticSegments"
    ELSE IF Contains(prefix, KeyLocations) THEN "locations"
    ELSE "none"

\* detected_format for a prefix; "none" is Python's None.
DetectFormat(prefix) ==
    IF StartsWith(prefix, "[") THEN "root_array"
    ELSE IF StartsWith(prefix, "{")
    THEN IF Contains(prefix, KeyLocations) THEN "locations"
         ELSE IF Contains(prefix, KeySemanticSegments) THEN "semanticSegments"
         ELSE IF Contains(prefix, KeyTimelineObjects) THEN "timelineObjects"
         ELSE "none"
    ELSE "none"

\* prefix = f.read(4096).strip()
SniffPrefix(bytes) == Strip(Read(bytes, ReadSize))

(***************************************************************************)
(* The canonical points and what building one can raise.                   *)
(***************************************************************************)
\* x * E7 with E7 = 1e-7: a float for an int or a bool, TypeError for a
\* Decimal, a string, None, a list or a dict.  (The product is the exact
\* decimal; binary floating-point rounding is not modelled.)
\* x * 1e-6.
MulE6(x) ==
    CASE x.t = "int" -> NormFloat(x.v, 6)
      [] x.t = "bool" -> NormFloat(IF x.v THEN 1 ELSE 0, 6)
      [] OTHER -> Exc

MulE7(x) ==
    CASE x.t = "int" -> NormFloat(x.v, 7)
      [] x.t = "bool" -> NormFloat(IF x.v THEN 1 ELSE 0, 7)
      [] OTHER -> Exc

\* f'Activity ({activity_type})'
ActivityLabel(activity_type) ==
    JStr(<<"Activity (">> \o PyStr(activity_type) \o <<")">>)

\* int(start_time + (end_time - start_time) * progress) with
\* progress = idx / max(count - 1, 1): int() truncates toward zero.  (The
\* quotient is exact here; binary floating-point rounding is not modelled.)
InterpolateOver(start_time, end_time, idx, d) ==
    JInt(TruncDiv(start_time * d + (end_time - start_time) * idx, d))
Interpolate(start_time, end_time, idx, count) ==
    InterpolateOver(start_time, end_time, idx, IF count - 1 > 1 THEN count - 1 ELSE 1)

\* A dict whose source names the place of the code that built it.
PointOfPart(lat, lon, timestamp, placeID, semanticType, probability, source, part, idx) ==
    [lat |-> lat, lon |-> lon, timestamp |-> timestamp, placeID |-> placeID,
     semanticType |-> semanticType, probability |-> probability,
     source |-> part, part |-> part, idx |-> idx]

\* The dict appended to points.  part and idx are not fields of the
\* program's dict: they record which place of the code built the point
\* ("loc", "visit", "start", "end", "path") and, for a path point, its
\* index in the path.
Point(lat, lon, timestamp, placeID, semanticType, probability, source, part, idx) ==
    [lat |-> lat, lon |-> lon, timestamp |-> timestamp, placeID |-> placeID,
     semanticType |-> semanticType, probability |-> probability,
     source |-> source, part |-> part, idx |-> idx]

\* What a piece of the body of a loop leaves behind: the points appended,
\* and whether it raised.
Done(pts) == [pts |-> pts, exc |-> FALSE]
Raised(pts) == [pts |-> pts, exc |-> TRUE]

\* Statement a, then (unless a raised) statement b.
Then(a, b) == IF a.exc THEN a ELSE [pts |-> a.pts \o b.pts, exc |-> b.exc]

Zero == JFloat(0, 0)

\* points.append({...}) for E7-scaled coordinates: the products are
\* evaluated first, and a TypeError leaves the list as it was.
E7Point(lat, lon, timestamp, placeID, semanticType, source, part, idx) ==
    IF IsExc(lat) \/ IsExc(lon) THEN Raised(<<>>)
    ELSE Done(<<Point(lat, lon, timestamp, placeID, semanticType, Zero,
                      source, part, idx)>>)

\* if coords := parse_lat_lng_string(...): points.append({...}); the
\* label or the probability may raise while the dict is built.
CoordPoint(coords, timestamp, placeID, semanticType, probability, source, part, idx) ==
    IF ~Truthy(coords) THEN Done(<<>>)
    ELSE IF IsExc(semanticType) \/ IsExc(probability) THEN Raised(<<>>)
    ELSE Done(<<Point(coords.v[1], coords.v[2], timestamp, placeID, semanticType,
                      probability, source, part, idx)>>)

\* `key in record`, whatever the flag.
KeyIn(flag, key, record) == PyIn(key, record)

\* `flag and key in record`: False without looking at record if the flag
\* is off.
FlagAndIn(flag, key, record) == IF flag THEN PyIn(key, record) ELSE JBool(FALSE)

\* `a in x and b in x`
HasBoth(x, a, b) == PyIn(a, x).v /\ PyIn(b, x).v

(***************************************************************************)
(* _process_locations_format: the body of the loop for one element.        *)
(***************************************************************************)
LocationsItem(loc) ==
    IF IsExc(PyIn("latitudeE7", loc)) THEN Raised(<<>>)
    ELSE IF ~HasBoth(loc, "latitudeE7", "longitudeE7") THEN Done(<<>>)
    ELSE E7Point(MulE7(loc.v["latitudeE7"]), MulE7(loc.v["longitudeE7"]),
                 _parse_timestamp(PyOr(PyGet(loc, "timestampMs"),
                                       PyGet(loc, "timestamp"))),
                 None, JStr(<<"Location">>), "path", "loc", 0)

(***************************************************************************)
(* _process_semantic_segments_format: the body of the loop for one segment.*)
(***************************************************************************)
\* The timestamp of a timelinePath point: its own, or the interpolated one.
PointTime(own, start_time, end_time, idx, count, cfg) ==
    IF /\ ~Truthy(own)
       /\ cfg.INTERPOLATE_MISSING_TIMESTAMPS
       /\ Truthy(start_time)
       /\ Truthy(end_time)
    THEN Interpolate(start_time.v, end_time.v, idx, count)
    ELSE own

\* The body of the for loop over timeline_path for one path_point.
SemanticPathPoint(path_point, idx, count, start_time, end_time, cfg) ==
    IF path_point.t # "dict" THEN Raised(<<>>)
    ELSE CoordPoint(parse_lat_lng_string(PyGet(path_point, "point")),
                    PointTime(_parse_timestamp(PyOr(PyGet(path_point, "time"),
                                                    PyGet(path_point, "timestamp"))),
                              start_time, end_time, idx, count, cfg),
                    None, None, Zero, "path", "path", idx)

\* The for loop over timeline_path, from its k-th point on.
RECURSIVE SemanticPathFrom(_, _, _, _, _)
SemanticPathFrom(path, k, start_time, end_time, cfg) ==
    IF k > Len(path) THEN Done(<<>>)
    ELSE Then(SemanticPathPoint(path[k], k - 1, Len(path), start_time, end_time, cfg),
              SemanticPathFrom(path, k + 1, start_time, end_time, cfg))

SemanticPath(segment, cfg) ==
    IF ~Iterable(PyGetD(segment, "timelinePath", JList(<<>>))) THEN Raised(<<>>)
    ELSE SemanticPathFrom(Iter(PyGetD(segment, "timelinePath", JList(<<>>))), 1,
                          _parse_timestamp(PyGet(segment, "startTime")),
                          _parse_timestamp(PyGet(segment, "endTime")), cfg)

\* probability of a visit:
\* float(top_candidate.get('probability', 0)) if top_candidate.get('probability') else 0.0
VisitProbability(top_candidate) ==
    IF Truthy(PyGet(top_candidate, "probability"))
    THEN PyFloat(PyGetD(top_candidate, "probability", JInt(0)))
    ELSE Zero

\* The visit point of a record (root array) or a segment (semanticSegments)
\* whose place text is lat_lng, coords being what the extractor's
\* parse_lat_lng_string makes of it.
VisitPoint(record, visit_data, top_candidate, lat_lng, coords) ==
    IF IsExc(lat_lng) THEN Raised(<<>>)
    ELSE IF ~Truthy(lat_lng) THEN Done(<<>>)
    ELSE CoordPoint(coords,
                    _parse_timestamp(PyOr(PyGet(visit_data, "startTime"),
                                          PyGet(record, "startTime"))),
                    PyGet(top_candidate, "placeID"),
                    PyGetD(top_candidate, "semanticType", JStr(<<"Unknown Location">>)),
                    VisitProbability(top_candidate), "visit", "visit", 0)

SemanticVisitOf(segment, visit_data, top_candidate) ==
    VisitPoint(segment, visit_data, top_candidate,
               PyGet(PyGetD(top_candidate, "placeLocation", EmptyDict), "latLng"),
               parse_lat_lng_string(
                   PyGet(PyGetD(top_candidate, "placeLocation", EmptyDict), "latLng")))

SemanticVisit(segment) ==
    SemanticVisitOf(segment, PyGetD(segment, "visit", EmptyDict),
                    PyGetD(PyGetD(segment, "visit", EmptyDict), "topCandidate", EmptyDict))

\* One endpoint of a semanticSegments activity: place is
\* activity.get('start', {}) or activity.get('end', {}), bound the
\* segment's time of that end.
SemanticEndpoint(place, which, activity_type, bound) ==
    IF place.t # "dict" THEN Raised(<<>>)
    ELSE IF ~Truthy(PyGet(place, "latLng")) THEN Done(<<>>)
    ELSE CoordPoint(parse_lat_lng_string(PyGet(place, "latLng")),
                    _parse_timestamp(PyOr(PyGet(place, "time"), bound)),
                    None, ActivityLabel(activity_type), Zero, "activity", which, 0)

SemanticActivityOf(segment, activity, activity_type) ==
    IF IsExc(activity_type) THEN Raised(<<>>)
    ELSE Then(SemanticEndpoint(PyGetD(activity, "start", EmptyDict), "start",
                               activity_type, PyGet(segment, "startTime")),
              SemanticEndpoint(PyGetD(activity, "end", EmptyDict), "end",
                               activity_type, PyGet(segment, "endTime")))

SemanticActivity(segment) ==
    SemanticActivityOf(segment, PyGetD(segment, "activity", EmptyDict),
                       PyGetD(PyGetD(PyGetD(segment, "activity", EmptyDict),
                                     "topCandidate", EmptyDict),
                              "type", JStr(<<"Unknown">>)))

\* if / elif / elif over the flags and the keys of the element: which
\* branch runs ("first", "second", "third", "none"), or "raise" if a test
\* raises.
Branch(c1, c2, c3) ==
    IF IsExc(c1) THEN "raise"
    ELSE IF c1.v THEN "first"
    ELSE IF IsExc(c2) THEN "raise"
    ELSE IF c2.v THEN "second"
    ELSE IF IsExc(c3) THEN "raise"
    ELSE IF c3.v THEN "third"
    ELSE "none"

SemanticBranch(segment, cfg) ==
    Branch(FlagAndIn(cfg.INCLUDE_RAW_PATH, "timelinePath", segment),
           FlagAndIn(cfg.INCLUDE_VISITS, "visit", segment),
           FlagAndIn(cfg.INCLUDE_ACTIVITIES, "activity", segment))

\* The three parts of a segment one after the other.
SemanticItemAll(segment, cfg) ==
    Then(SemanticPath(segment, cfg), Then(SemanticVisit(segment), SemanticActivity(segment)))

SemanticItem(segment, cfg) ==
    CASE SemanticBranch(segment, cfg) = "raise" -> Raised(<<>>)
      [] SemanticBranch(segment, cfg) = "first" -> SemanticPath(segment, cfg)
      [] SemanticBranch(segment, cfg) = "second" -> SemanticVisit(segment)
      [] SemanticBranch(segment, cfg) = "third" -> SemanticActivity(segment)
      [] OTHER -> Done(<<>>)

(***************************************************************************)
(* _process_root_array_format: the body of the loop for one record.        *)
(***************************************************************************)
RootVisitOf(record, visit_data, top_candidate) ==
    VisitPoint(record, visit_data, top_candidate, PyGet(top_candidate, "placeLocation"),
               root_parse_lat_lng_string(PyGet(top_candidate, "placeLocation")))

RootVisit(record) ==
    RootVisitOf(record, PyGetD(record, "visit", EmptyDict),
                PyGetD(PyGetD(record, "visit", EmptyDict), "topCandidate", EmptyDict))

\* The label of a root array activity, read when an endpoint is built.
RootLabel(activity_type) ==
    IF IsExc(activity_type) THEN Exc ELSE ActivityLabel(activity_type)

\* One endpoint (which = "start" or "end") of a root array activity; timeKey
\* is 'startTime' or 'endTime'.
RootEndpoint(record, activity, which, timeKey) ==
    CoordPoint(root_parse_lat_lng_string(PyGet(activity, which)),
               _parse_timestamp(PyOr(PyGet(activity, timeKey), PyGet(record, timeKey))),
               None,
               RootLabel(PyGetD(PyGetD(activity, "topCandidate", EmptyDict),
                                "type", JStr(<<"Unknown">>))),
               Zero, "activity", which, 0)

\* An activity whose end is looked at only if its start gave a point.
RootActivityStartFirst(record, activity) ==
    IF activity.t # "dict" THEN Raised(<<>>)
    ELSE IF RootEndpoint(record, activity, "start", "startTime").pts = <<>>
         THEN RootEndpoint(record, activity, "start", "startTime")
         ELSE Then(RootEndpoint(record, activity, "start", "startTime"),
                   RootEndpoint(record, activity, "end", "endTime"))

RootActivityOf(record, activity) ==
    IF activity.t # "dict" THEN Raised(<<>>)
    ELSE Then(RootEndpoint(record, activity, "start", "startTime"),
              RootEndpoint(record, activity, "end", "endTime"))

RootActivity(record) == RootActivityOf(record, PyGetD(record, "activity", EmptyDict))

\* A visit whose flag is off keeps the activity of the record from running.
RootBranchBlocking(record, cfg) ==
    IF ~cfg.INCLUDE_VISITS /\ PyIn("visit", record) = JBool(TRUE) THEN "none"
    ELSE Branch(FlagAndIn(cfg.INCLUDE_VISITS, "visit", record),
                FlagAndIn(cfg.INCLUDE_ACTIVITIES, "activity", record),
                JBool(FALSE))

RootBranch(record, cfg) ==
    Branch(FlagAndIn(cfg.INCLUDE_VISITS, "visit", record),
           FlagAndIn(cfg.INCLUDE_ACTIVITIES, "activity", record),
           JBool(FALSE))

RootItem(record, cfg) ==
    CASE RootBranch(record, cfg) = "raise" -> Raised(<<>>)
      [] RootBranch(record, cfg) = "first" -> RootVisit(record)
      [] RootBranch(record, cfg) = "second" -> RootActivity(record)
      [] OTHER -> Done(<<>>)

(***************************************************************************)
(* _process_timeline_objects_format: the body of the loop for one object.  *)
(***************************************************************************)
\* duration.get(a) or duration.get(b), for duration = owner.get('duration', {})
DurationTime(owner, a, b) ==
    PyOr(PyGet(PyGetD(owner, "duration", EmptyDict), a),
         PyGet(PyGetD(owner, "duration", EmptyDict), b))

\* The point of a placeVisit whose location is a non-empty value.
TimelineVisitAt(place_visit, location, stamp) ==
    IF IsExc(PyIn("latitudeE7", location)) THEN Raised(<<>>)
    ELSE IF ~HasBoth(location, "latitudeE7", "longitudeE7") THEN Done(<<>>)
    ELSE IF IsExc(stamp) THEN Raised(<<>>)
    ELSE E7Point(MulE7(location.v["latitudeE7"]), MulE7(location.v["longitudeE7"]),
                 _parse_timestamp(stamp),
                 PyOr(PyGet(location, "placeId"), PyGet(place_visit, "placeId")),
                 PyOr(PyGet(location, "semanticType"),
                      PyGetD(place_visit, "semanticType", JStr(<<"Unknown Location">>))),
                 "visit", "visit", 0)

TimelineVisitOf(place_visit, location) ==
    IF IsExc(location) THEN Raised(<<>>)
    ELSE IF ~Truthy(location) THEN Done(<<>>)
    ELSE TimelineVisitAt(place_visit, location,
                         DurationTime(place_visit, "startTimestamp", "startTimestampMs"))

TimelineVisit(t_object) ==
    TimelineVisitOf(PyGetD(t_object, "placeVisit", EmptyDict),
                    PyGetD(PyGetD(t_object, "placeVisit", EmptyDict), "location", EmptyDict))

\* One endpoint of an activitySegment: loc is segment.get('startLocation')
\* or segment.get('endLocation'), time the segment's time of that end.
TimelineEndpoint(loc, time, activity_type, which) ==
    IF ~Truthy(loc) THEN Done(<<>>)
    ELSE IF IsExc(PyIn("latitudeE7", loc)) THEN Raised(<<>>)
    ELSE IF ~HasBoth(loc, "latitudeE7", "longitudeE7") THEN Done(<<>>)
    ELSE E7Point(MulE7(loc.v["latitudeE7"]), MulE7(loc.v["longitudeE7"]), time, None,
                 ActivityLabel(activity_type), "activity", which, 0)

\* The timestamp of a simplifiedRawPath point.
RawPointTime(start_time, end_time, idx, count, cfg) ==
    IF /\ cfg.INTERPOLATE_MISSING_TIMESTAMPS
       /\ Truthy(start_time)
       /\ Truthy(end_time)
    THEN Interpolate(start_time.v, end_time.v, idx, count)
    ELSE None

\* The body of the for loop over raw_points for one point.
TimelinePathPoint(point, idx, count, start_time, end_time, cfg) ==
    IF IsExc(PyIn("latE7", point)) THEN Raised(<<>>)
    ELSE IF ~HasBoth(point, "latE7", "lngE7") THEN Done(<<>>)
    ELSE E7Point(MulE7(point.v["latE7"]), MulE7(point.v["lngE7"]),
                 RawPointTime(start_time, end_time, idx, count, cfg),
                 None, None, "path", "path", idx)

\* The for loop over raw_points, from its k-th point on.
RECURSIVE TimelinePathFrom(_, _, _, _, _)
TimelinePathFrom(raw_points, k, start_time, end_time, cfg) ==
    IF k > Len(raw_points) THEN Done(<<>>)
    ELSE Then(TimelinePathPoint(raw_points[k], k - 1, Len(raw_points),
                                start_time, end_time, cfg),
              TimelinePathFrom(raw_points, k + 1, start_time, end_time, cfg))

\* The raw path read whatever INCLUDE_RAW_PATH says.
TimelineRawPathAlways(raw_path, start_time, end_time, cfg) ==
    IF ~Truthy(raw_path) THEN Done(<<>>)
    ELSE IF ~Iterable(PyGetD(raw_path, "points", JList(<<>>))) THEN Raised(<<>>)
    ELSE TimelinePathFrom(Iter(PyGetD(raw_path, "points", JList(<<>>))), 1,
                          start_time, end_time, cfg)

TimelineRawPath(raw_path, start_time, end_time, cfg) ==
    IF ~(cfg.INCLUDE_RAW_PATH /\ Truthy(raw_path)) THEN Done(<<>>)
    ELSE IF ~Iterable(PyGetD(raw_path, "points", JList(<<>>))) THEN Raised(<<>>)
    ELSE TimelinePathFrom(Iter(PyGetD(raw_path, "points", JList(<<>>))), 1,
                          start_time, end_time, cfg)

\* The activity branch once the segment and its two times are read.
TimelineActivityAt(segment, start_time, end_time, activity_type, cfg) ==
    Then(TimelineEndpoint(PyGet(segment, "startLocation"), start_time,
                          activity_type, "start"),
         Then(TimelineEndpoint(PyGet(segment, "endLocation"), end_time,
                               activity_type, "end"),
              TimelineRawPath(PyGet(segment, "simplifiedRawPath"),
                              start_time, end_time, cfg)))

TimelineActivityOf(segment, startStamp, endStamp, cfg) ==
    IF IsExc(startStamp) \/ IsExc(endStamp) THEN Raised(<<>>)
    ELSE TimelineActivityAt(segment, _parse_timestamp(startStamp),
                            _parse_timestamp(endStamp),
                            PyGetD(segment, "activityType", JStr(<<"Unknown">>)), cfg)

TimelineActivitySegment(segment, cfg) ==
    TimelineActivityOf(segment,
                       DurationTime(segment, "startTimestamp", "startTimestampMs"),
                       DurationTime(segment, "endTimestamp", "endTimestampMs"), cfg)

TimelineActivity(t_object, cfg) ==
    TimelineActivitySegment(PyGetD(t_object, "activitySegment", EmptyDict), cfg)

TimelineBranch(t_object, cfg) ==
    Branch(FlagAndIn(cfg.INCLUDE_VISITS, "placeVisit", t_object),
           FlagAndIn(cfg.INCLUDE_ACTIVITIES, "activitySegment", t_object),
           JBool(FALSE))

TimelineItem(t_object, cfg) ==
    CASE TimelineBranch(t_object, cfg) = "raise" -> Raised(<<>>)
      [] TimelineBranch(t_object, cfg) = "first" -> TimelineVisit(t_object)
      [] TimelineBranch(t_object, cfg) = "second" -> TimelineActivity(t_object, cfg)
      [] OTHER -> Done(<<>>)

(***************************************************************************)
(* The documents of the model.                                             *)
(***************************************************************************)
Geo(a, b) == JStr(<<"g", "e", "o", ":">> \o a \o <<",">> \o b)
Lat1 == <<"1", ".", "5">>
Lon1 == <<"-", "2", ".", "5">>
Lat2 == <<"3", ".", "2", "5">>
Lon2 == <<"4", ".", "0">>

LocationsItems ==
    { JDict([latitudeE7 |-> JInt(15000000), longitudeE7 |-> JInt(-25000000),
             timestampMs |-> JStr(<<"5">>)]),
      JDict([latitudeE7 |-> JInt(32500000), longitudeE7 |-> JInt(40000000),
             timestamp |-> JStr(<<"1970-01-01T00:00:05", "Z">>)]),
      JDict([latitudeE7 |-> JInt(15000000)]),
      JDict([latitudeE7 |-> JDec(15, 1), longitudeE7 |-> JInt(40000000)]),
      JDict([latitudeE7 |-> JStr(Lat1), longitudeE7 |-> JStr(Lon1)]),
      EmptyDict,
      None }

\* A timestamp text and a place.
T5 == JStr(<<"5">>)
T9 == JStr(<<"9">>)
Place(a, b) == JDict([placeLocation |-> JDict([latLng |-> Geo(a, b)]),
                      placeID |-> JStr(<<"p">>), semanticType |-> JStr(<<"Home">>),
                      probability |-> JDec(9, 1)])
PathPoint(a, b) == JDict([point |-> Geo(a, b)])
E7Loc(a, b) == JDict([latitudeE7 |-> JInt(a), longitudeE7 |-> JInt(b)])
RawPoint(a, b) == JDict([latE7 |-> JInt(a), lngE7 |-> JInt(b)])
Walking == JDict([type |-> JStr(<<"WALKING">>)])

SemanticSegment(kinds) ==
    JDict([k \in kinds \cup {"startTime", "endTime"} |->
        CASE k = "startTime" -> T5
          [] k = "endTime" -> T9
          [] k = "timelinePath" -> JList(<<PathPoint(Lat1, Lon1), PathPoint(Lat2, Lon2)>>)
          [] k = "visit" -> JDict([topCandidate |-> Place(Lat1, Lon1)])
          [] k = "activity" ->
               JDict([start |-> JDict([latLng |-> Geo(Lat1, Lon1)]),
                      end |-> JDict([latLng |-> Geo(Lat2, Lon2)]),
                      topCandidate |-> Walking])])

SemanticItems ==
    { SemanticSegment({"timelinePath"}), SemanticSegment({"visit"}),
      SemanticSegment({"activity"}),
      SemanticSegment({"timelinePath", "visit", "activity"}),
      \* the second path point is no object
      JDict([timelinePath |-> JList(<<PathPoint(Lat1, Lon1), None>>)]),
      \* the end of the activity is no object
      JDict([activity |-> JDict([start |-> JDict([latLng |-> Geo(Lat1, Lon1)]),
                                 end |-> JInt(7)])]),
      JDict([visit |-> None]),
      EmptyDict }

RootRecord(kinds) ==
    JDict([k \in kinds \cup {"startTime", "endTime"} |->
        CASE k = "startTime" -> T5
          [] k = "endTime" -> T9
          [] k = "visit" ->
               JDict([topCandidate |->
                   JDict([placeLocation |-> Geo(Lat1, Lon1), placeID |-> JStr(<<"p">>),
                          semanticType |-> JStr(<<"Home">>),
                          probability |-> JStr(<<"0", ".", "9">>)])])
          [] k = "activity" ->
               JDict([start |-> Geo(Lat1, Lon1), end |-> Geo(Lat2, Lon2),
                      topCandidate |-> Walking])])

RootItems ==
    { RootRecord({"visit"}), RootRecord({"activity"}),
      RootRecord({"visit", "activity"}),
      \* its topCandidate is no object
      JDict([activity |-> JDict([start |-> Geo(Lat1, Lon1), topCandidate |-> JInt(7)])]),
      JDict([visit |-> None]),
      \* its probability is no number
      JDict([visit |-> JDict([topCandidate |->
          JDict([placeLocation |-> Geo(Lat1, Lon1),
                 probability |-> JStr(<<"h", "i">>)])])]),
      \* its probability is 1.5
      JDict([visit |-> JDict([topCandidate |->
          JDict([placeLocation |-> Geo(Lat1, Lon1),
                 probability |-> JDec(15, 1)])])]),
      EmptyDict,
      JInt(7) }

TimelineObject(kinds) ==
    JDict([k \in kinds |->
        CASE k = "placeVisit" ->
               JDict([location |-> JDict([latitudeE7 |-> JInt(15000000),
                                          longitudeE7 |-> JInt(-25000000),
                                          placeId |-> JStr(<<"p">>)]),
                      duration |-> JDict([startTimestamp |-> T5])])
          [] k = "activitySegment" ->
               JDict([duration |-> JDict([startTimestampMs |-> T5, endTimestampMs |-> T9]),
                      activityType |-> JStr(<<"WALKING">>),
                      startLocation |-> E7Loc(15000000, -25000000),
                      endLocation |-> E7Loc(32500000, 40000000),
                      simplifiedRawPath |-> JDict([points |->
                          JList(<<RawPoint(15000000, -25000000),
                                  RawPoint(20000000, 10000000),
                                  RawPoint(32500000, 40000000)>>)])])])

TimelineItems ==
    { TimelineObject({"placeVisit"}), TimelineObject({"activitySegment"}),
      TimelineObject({"placeVisit", "activitySegment"}),
      \* the second raw point holds a Decimal
      JDict([activitySegment |->
          JDict([startLocation |-> E7Loc(15000000, -25000000),
                 simplifiedRawPath |-> JDict([points |->
                     JList(<<RawPoint(15000000, -25000000),
                             JDict([latE7 |-> JDec(15, 1), lngE7 |-> JInt(1)])>>)])])]),
      \* the end location holds a string
      JDict([activitySegment |->
          JDict([startLocation |-> E7Loc(15000000, -25000000),
                 endLocation |-> JDict([latitudeE7 |-> JStr(Lat1),
                                        longitudeE7 |-> JStr(Lon1)])])]),
      JDict([placeVisit |-> None]),
      EmptyDict }

ItemsOf(fmt) ==
    CASE fmt = "root_array" -> RootItems
      [] fmt = "locations" -> LocationsItems
      [] fmt = "semanticSegments" -> SemanticItems
      [] fmt = "timelineObjects" -> TimelineItems
      [] OTHER -> {}

Formats == {"root_array", "locations", "semanticSegments", "timelineObjects"}

\* The sequences of at most n elements of S.
SeqsUpTo(S, n) == UNION {[1..k -> S] : k \in 0..n}

\* The heads of the documents of each shape, and one of no known shape.
HeadOf(fmt) ==
    CASE fmt = "root_array" -> <<"[", "{">>
      [] fmt = "locations" -> <<"{">> \o KeyLocations \o <<":", "[">>
      [] fmt = "semanticSegments" -> <<" ", "{">> \o KeySemanticSegments \o <<":">>
      [] fmt = "timelineObjects" -> <<"{">> \o KeyTimelineObjects \o <<":">>
      [] OTHER -> <<"{", "}">>

\* A file: whether open() succeeds ("ok"), raises FileNotFoundError
\* ("missing") or another OSError ("denied"); its first bytes; the elements
\* ijson.items yields for the detected shape; and how the token stream ends
\* after them: at the end of a well-formed document ("eof"), with
\* ijson.common.IncompleteJSONError ("incomplete") or with another
\* exception of the decoder ("invalid").
File(open, bytes, items, tail) ==
    [open |-> open, bytes |-> bytes, items |-> items, tail |-> tail]

Tails == {"eof", "incomplete", "invalid"}

UnopenedFiles == {File(o, <<>>, <<>>, "eof") : o \in {"missing", "denied"}}

FilesOf(fmt, Items, n) ==
    {File("ok", HeadOf(fmt), items, tail) : items \in SeqsUpTo(Items, n), tail \in Tails}

Configs ==
    [INCLUDE_VISITS : BOOLEAN, INCLUDE_ACTIVITIES : BOOLEAN,
     INCLUDE_RAW_PATH : BOOLEAN, INTERPOLATE_MISSING_TIMESTAMPS : BOOLEAN]

(***************************************************************************)
(* extract_locations as a state machine.                                   *)
(***************************************************************************)
VARIABLES
    file,             \* the input file (never written)
    config,           \* the options (never written)
    pc,               \* the state of the run, see Outcomes
    handle,           \* f: "none", "open" or "closed"
    opens,            \* the number of open() calls that succeeded
    detected_format,  \* detected_format, "none" for None
    i,                \* the number of elements the extractor has consumed
    xpoints,          \* points of the running _process_*_format
    origin,           \* for each point of xpoints, the number of its element
    points,           \* points of extract_locations
    result,           \* what extract_locations returns, Pending until then
    log,              \* the diagnostics printed so far
    run,              \* the number of the call (TwiceSpec calls twice)
    first,            \* the outcome and the result of the first call
    body,             \* for each extractor and each element of the file, what
                      \* the body of the extractor's loop does with it
    call,             \* a call of one function on its own (UnitSpec): the
                      \* function, its arguments and what it returned
    main              \* main() around the call (MainSpec): where it is, the
                      \* functions it has called, what it wrote and opened

vars == <<file, config, pc, handle, opens, detected_format, i, xpoints,
          origin, points, result, log, run, first, body, call, main>>

Pending == [t |-> "pending", v |-> 0]
NoData == None

Outcomes == {"Completed", "Truncated", "Unrecognized", "NotFound", "Fatal"}

Event(kind, n) == [kind |-> kind, n |-> n]

\* A call of the function fn with the arguments args, not yet returned; and
\* no such call (the runs of extract_locations).
Call(fn, args) == [fn |-> fn, args |-> args, ret |-> Pending]
NoCall == Call("none", <<>>)

\* main() at pc with CONFIG["AUTO_OPEN_IN_BROWSER"] = auto, before it has
\* called create_html_file or open_in_browser; and no main() (the calls of
\* extract_locations on its own).
Script(at, auto) ==
    [pc |-> at, AUTO_OPEN_IN_BROWSER |-> auto, calls |-> <<>>, html |-> None,
     opened |-> FALSE]
NoMain == Script("none", FALSE)

\* The body of the extractor's loop for the element record.
ItemResult(fmt, record, cfg) ==
    CASE fmt = "root_array" -> RootItem(record, cfg)
      [] fmt = "locations" -> LocationsItem(record)
      [] fmt = "semanticSegments" -> SemanticItem(record, cfg)
      [] fmt = "timelineObjects" -> TimelineItem(record, cfg)

\* The body of the loop of the extractor of fmt for each of items.
Bodies(fmt, items, cfg) ==
    [k \in 1..Len(items) |-> ItemResult(fmt, items[k], cfg)]

\* The state of a call at its start: points = [] (line 1549), nothing
\* opened, nothing detected.  What the extractors do with the elements is
\* settled by the file and the options.
InitWith(files, configs, calls, mains) ==
    /\ file \in files
    /\ config \in configs
    /\ pc = "Start"
    /\ handle = "none"
    /\ opens = 0
    /\ detected_format = "none"
    /\ i = 0
    /\ xpoints = <<>>
    /\ origin = <<>>
    /\ points = <<>>
    /\ result = Pending
    /\ log = <<>>
    /\ run = 1
    /\ first = Pending
    /\ body = [fmt \in Formats |-> Bodies(fmt, file.items, config)]
    /\ call \in calls
    /\ main \in mains

\* Return without the test of an empty list.
ReturnList(pts) == JList(pts)

\* The final report and the return of extract_locations (lines 1595-1603)
\* for the value pts of points.
Return(pts) == IF pts = <<>> THEN NoData ELSE JList(pts)
ReportLog(pts) ==
    <<Event("report", Len(pts))>> \o
    (IF pts = <<>> THEN <<Event("no-points", 0)>> ELSE <<>>)

\* Abort handing out the list as it is.
AbortWithList(pts) == JList(pts)

\* What the handlers of FileNotFoundError and Exception, and the branch of
\* no detected format, return when points holds pts.
Abort(pts) == NoData

\* f when it is opened without a with block and an exit path does not close it.
WithoutExit == "open"

\* The state of f after the with block is left, by return or by exception.
WithExit == "closed"

\* An extractor that keeps its list from one call to the next.
ExtractorPointsKept(earlier) == earlier

\* points = [] at the start of an extractor, whatever an earlier call of the
\* extractor left behind.
ExtractorPoints(earlier) == <<>>

\* points.insert(0, ...) in place of points.append(...).
PrependPoints(pts, new) == new \o pts

\* points.append(...) for the points new of one element, in their order.
AppendPoints(pts, new) == pts \o new

\* StreamOutcome with IncompleteJSONError taken for the end of the document.
StreamOutcomeLenient(tail) ==
    CASE tail = "invalid" -> "Fatal"
      [] OTHER -> "Completed"

\* How the call ends when ijson.items has no further element: at the end of
\* the document the extractor returns; IncompleteJSONError and any other
\* exception of the decoder reach the handlers of extract_locations.
StreamOutcome(tail) ==
    CASE tail = "eof" -> "Completed"
      [] tail = "incomplete" -> "Truncated"
      [] OTHER -> "Fatal"

\* open(input_file, 'rb')
Open ==
    /\ pc = "Start"
    /\ IF file.open = "ok"
       THEN /\ handle' = "open"
            /\ opens' = opens + 1
            /\ pc' = "Sniffing"
            /\ UNCHANGED <<result, log>>
       ELSE /\ pc' = IF file.open = "missing" THEN "NotFound" ELSE "Fatal"
            /\ log' = Append(log, Event(IF file.open = "missing" THEN "not-found"
                                        ELSE "fatal", 0))
            /\ result' = Abort(points)
            /\ UNCHANGED <<handle, opens>>
    /\ UNCHANGED <<file, config, detected_format, i, xpoints, origin, points,
                   run, first, body, call, main>>

\* The prefix is read and classified; an extractor is chosen and starts
\* with points = [], or the call returns None.
Sniff ==
    /\ pc = "Sniffing"
    /\ detected_format' = DetectFormat(SniffPrefix(file.bytes))
    /\ IF detected_format' = "none"
       THEN /\ log' = Append(log, Event("unrecognized", 0))
            /\ result' = Abort(points)
            /\ handle' = WithExit
            /\ pc' = "Unrecognized"
            /\ UNCHANGED <<xpoints, origin, i>>
       ELSE /\ pc' = "Extracting"
            /\ xpoints' = ExtractorPoints(xpoints)
            /\ origin' = <<>>
            /\ i' = 0
            /\ UNCHANGED <<log, result, handle>>
    /\ UNCHANGED <<file, config, opens, points, run, first, body, call, main>>

\* No extractor with a try block in its loop.
IsolatesNone(fmt) == FALSE

\* Whether the extractor wraps the body of its loop in try / except
\* Exception: continue.
IsolatesRecords(fmt) == fmt # "locations"

\* The progress line after element n.
ProgressLog(n) ==
    IF n % ProgressEvery = 0 THEN <<Event("progress", n)>> ELSE <<>>

\* The extractor has run the body of its loop on element i + 1, with the
\* outcome r.
ItemDone(r) ==
    /\ i' = i + 1
    /\ xpoints' = AppendPoints(xpoints, r.pts)
    /\ origin' = origin \o [k \in 1..Len(r.pts) |-> i + 1]
    /\ IF r.exc /\ ~IsolatesRecords(detected_format)
       THEN \* the exception leaves the extractor: except Exception
            /\ pc' = "Fatal"
            /\ handle' = WithExit
            /\ result' = Abort(points)
            /\ log' = Append(log, Event("fatal", i + 1))
       ELSE /\ log' = log \o (IF r.exc THEN <<Event("record-skipped", i + 1)>>
                              ELSE ProgressLog(i + 1))
            /\ UNCHANGED <<pc, handle, result>>

\* The extractor takes the next element from ijson.items and runs the body
\* of its loop on it.
ExtractItem ==
    /\ pc = "Extracting"
    /\ i < Len(file.items)
    /\ ItemDone(body[detected_format][i + 1])
    /\ UNCHANGED <<file, config, opens, detected_format, points, run, first, body, call, main>>

\* The diagnostics of the end of the call for the value pts of points.
EndLog(outcome, pts) ==
    CASE outcome = "Completed" -> ReportLog(pts)
      [] outcome = "Truncated" -> <<Event("structural-fault", i)>> \o ReportLog(pts)
      [] OTHER -> <<Event("fatal", i)>>

\* ijson.items has no further element: the stream ends, or the decoder
\* raises.  Only a returning extractor assigns points of extract_locations.
EndOfStream ==
    /\ pc = "Extracting"
    /\ i = Len(file.items)
    /\ handle' = WithExit
    /\ pc' = StreamOutcome(file.tail)
    /\ points' = IF pc' = "Completed" THEN xpoints ELSE points
    /\ result' = IF pc' = "Fatal" THEN Abort(points') ELSE Return(points')
    /\ log' = log \o EndLog(pc', points')
    /\ UNCHANGED <<file, config, opens, detected_format, i, xpoints, origin,
                   run, first, body, call, main>>

\* main is run again on the same file with the same options: a new call of
\* extract_locations, with points = [] and nothing opened.  The list of the
\* extractor of the call before stays where it was until an extractor
\* starts.
Rerun ==
    /\ pc \in Outcomes
    /\ run = 1
    /\ run' = 2
    /\ first' = [outcome |-> pc, result |-> result]
    /\ pc' = "Start"
    /\ handle' = "none"
    /\ opens' = 0
    /\ detected_format' = "none"
    /\ i' = 0
    /\ points' = <<>>
    /\ result' = Pending
    /\ log' = <<>>
    /\ UNCHANGED <<file, config, xpoints, origin, body, call, main>>

Next == Open \/ Sniff \/ ExtractItem \/ EndOfStream

TwiceNext == Open \/ Sniff \/ ExtractItem \/ EndOfStream \/ Rerun

\* The files of the model: of every shape, with at most MaxItems elements
\* and every ending, of no known shape, and not to be opened.
Files ==
    UnopenedFiles \cup FilesOf("none", {}, 0)
    \cup UNION {FilesOf(fmt, ItemsOf(fmt), MaxItems) : fmt \in Formats}

Init == InitWith(Files, Configs, {NoCall}, {NoMain})

\* One call of extract_locations.
Spec == Init /\ [][Next]_vars

\* One call that is not stopped from outside: a step that can be taken is
\* taken.
FairSpec == Init /\ [][Next]_vars /\ WF_vars(Next)

\* Two calls, one after the other, on the same file and options.
TwiceSpec == Init /\ [][TwiceNext]_vars

\* The pieces the first bytes of a file are made of: white space, brackets,
\* another byte, and the three keys.
Chunks ==
    { <<" ">>, <<"[">>, <<"{">>, <<"x">>,
      KeyLocations, KeySemanticSegments, KeyTimelineObjects }

RECURSIVE Flatten(_)
Flatten(chunks) ==
    IF chunks = <<>> THEN <<>> ELSE Head(chunks) \o Flatten(Tail(chunks))

\* The options as the source sets them.
DefaultConfig ==
    [INCLUDE_VISITS |-> TRUE, INCLUDE_ACTIVITIES |-> TRUE,
     INCLUDE_RAW_PATH |-> TRUE, INTERPOLATE_MISSING_TIMESTAMPS |-> TRUE]

\* Files whose first bytes are any at most MaxChunks pieces, holding the
\* empty document or one empty object.
SniffFiles ==
    { File("ok", Flatten(chunks), items, "eof") :
          chunks \in SeqsUpTo(Chunks, MaxChunks), items \in {<<>>, <<EmptyDict>>} }

SniffInit == InitWith(SniffFiles, {DefaultConfig}, {NoCall}, {NoMain})

\* One call on each of the files of SniffFiles.
SniffSpec == SniffInit /\ [][Next]_vars

(***************************************************************************)
(* main: extract_locations, then create_html_file and open_in_browser if   *)
(* it returned points.  The two functions are taken to return: an          *)
(* exception of theirs (the output file cannot be written) is not in the   *)
(* model.                                                                  *)
(***************************************************************************)
\* The test without the value.
AnyResult(location_points) == TRUE

\* if location_points:
HasPoints(location_points) == Truthy(location_points)

\* create_html_file(CONFIG, location_points): the points are written into
\* the HTML file.
CreateHtmlFile ==
    /\ main.pc = "extract_locations"
    /\ pc \in Outcomes
    /\ HasPoints(result)
    /\ main' = [main EXCEPT !.pc = "open_in_browser",
                            !.calls = Append(@, "create_html_file"),
                            !.html = result]
    /\ UNCHANGED <<file, config, pc, handle, opens, detected_format, i, xpoints,
                   origin, points, result, log, run, first, body, call>>

\* open_in_browser(CONFIG), which returns at once unless
\* AUTO_OPEN_IN_BROWSER is set, and the closing banner.
OpenInBrowser ==
    /\ main.pc = "open_in_browser"
    /\ main' = [main EXCEPT !.pc = "finished",
                            !.calls = Append(@, "open_in_browser"),
                            !.opened = main.AUTO_OPEN_IN_BROWSER]
    /\ UNCHANGED <<file, config, pc, handle, opens, detected_format, i, xpoints,
                   origin, points, result, log, run, first, body, call>>

\* The else branch, and the closing banner.
MainNoData ==
    /\ main.pc = "extract_locations"
    /\ pc \in Outcomes
    /\ ~HasPoints(result)
    /\ main' = [main EXCEPT !.pc = "finished"]
    /\ UNCHANGED <<file, config, pc, handle, opens, detected_format, i, xpoints,
                   origin, points, result, log, run, first, body, call>>

MainInit ==
    InitWith(Files, {DefaultConfig}, {NoCall},
             {Script("extract_locations", auto) : auto \in BOOLEAN})

MainNext == Next \/ CreateHtmlFile \/ OpenInBrowser \/ MainNoData

\* The script run to its end: a step that can be taken is taken.
MainSpec == MainInit /\ [][MainNext]_vars /\ WF_vars(MainNext)

(***************************************************************************)
(* The functions of the pipeline called on their own.                      *)
(***************************************************************************)
\* The decimal text of n >= 0, as str(n) writes it.
RECURSIVE DecimalText(_)
DecimalText(n) ==
    IF n < 10 THEN <<CHOOSE c \in Digits : DigitVal(c) = n>>
    ELSE DecimalText(n \div 10) \o DecimalText(n % 10)

\* Values a timestamp field holds that are no dict: null, booleans,
\* integers, a Decimal, digit texts (also signed and with a leading zero),
\* other texts, date-time texts with and without Z, lists.
TimestampLeaves ==
    { None, JBool(TRUE), JBool(FALSE), JInt(-5), JDec(15, 1), JDec(0, 1),
      JStr(<<>>), JStr(<<"x">>), JStr(<<"-", "5">>), JStr(<<"0", "7">>),
      JStr(<<"1970-01-01T00:00:05">>), JStr(<<"1970-01-01T02:00:00", "Z">>),
      JStr(<<"1970-13-01">>), JList(<<>>), JList(<<JInt(5)>>) }
    \cup {JInt(n) : n \in 0..MaxMs}
    \cup {JStr(DecimalText(n)) : n \in 0..MaxMs}

\* Dicts holding timestampMs, timestamp, both or neither.
TimestampDicts(Values) ==
    { EmptyDict, JDict([time |-> JInt(5)]) }
    \cup {JDict([timestampMs |-> a]) : a \in Values}
    \cup {JDict([timestamp |-> a]) : a \in Values}
    \cup {JDict([timestampMs |-> a, timestamp |-> b]) : a \in Values, b \in Values}

\* What _parse_timestamp is called on: the values above, dicts of them and
\* dicts of dicts.
TimestampInputs ==
    TimestampLeaves \cup TimestampDicts(TimestampLeaves)
    \cup TimestampDicts({ EmptyDict, JDict([timestampMs |-> JStr(<<"5">>)]),
                          JDict([timestamp |-> JInt(7)]),
                          JDict([timestamp |-> JDict([timestamp |-> JStr(<<"9">>)])]) })

\* _parse_timestamp(timestamp_data) is called and returns.
ParseTimestamp ==
    /\ call.fn = "_parse_timestamp"
    /\ call.ret = Pending
    /\ call' = [call EXCEPT !.ret = _parse_timestamp(call.args[1])]
    /\ UNCHANGED <<file, config, pc, handle, opens, detected_format, i, xpoints,
                   origin, points, result, log, run, first, body, main>>

\* What the coordinate string decoder is called on: the texts made of at
\* most MaxTokens pieces (numbers with a fraction, with and without a sign,
\* digits, points, signs and other characters), and values that are no
\* string.
DecoderInputs ==
    { None, JInt(5), JDec(15, 1), EmptyDict,
      JList(<<JStr(<<"1", ".", "5">>), JStr(<<"2", ".", "5">>)>>) }
    \cup { JStr(Flatten(tokens)) :
              tokens \in SeqsUpTo({ <<"1", ".", "5">>, <<"-", "2", ".", "5">>, <<"7">>,
                                    <<".">>, <<"-">>, <<",">>, <<"g">> }, MaxTokens) }

\* Both copies of parse_lat_lng_string are called on the same value and
\* return.
ParseLatLng ==
    /\ call.fn = "parse_lat_lng_string"
    /\ call.ret = Pending
    /\ call' = [call EXCEPT !.ret =
                    [semantic |-> parse_lat_lng_string(call.args[1]),
                     root |-> root_parse_lat_lng_string(call.args[1])]]
    /\ UNCHANGED <<file, config, pc, handle, opens, detected_format, i, xpoints,
                   origin, points, result, log, run, first, body, main>>

\* The longest path of a call.
MaxPath == 4

\* What a document holds as the start or the end of a segment, or as the
\* time of a path point: nothing, the epoch as a text or as a number, or
\* some milliseconds.
PathTimes == {None, JStr(<<"0">>), JInt(0), JInt(1), JInt(3), JInt(10), JInt(100)}

\* A semantic segment with a timelinePath of count points, each holding own
\* as its time.
SemanticPathSegment(own, start, end, count) ==
    JDict([startTime |-> start, endTime |-> end,
           timelinePath |-> JList([k \in 1..count |->
               JDict([point |-> Geo(Lat1, Lon1), time |-> own])])])

\* A timeline object with a simplifiedRawPath of count points, each holding
\* own as its timestamp.
RawPathObject(own, start, end, count) ==
    JDict([activitySegment |->
        JDict([duration |-> JDict([startTimestamp |-> start, endTimestamp |-> end]),
               simplifiedRawPath |-> JDict([points |-> JList([k \in 1..count |->
                   JDict([latE7 |-> JInt(15000000), lngE7 |-> JInt(-25000000),
                          timestamp |-> own])])])])])

\* The timestamps of the points a piece of code appended.
Stamps(r) == [k \in 1..Len(r.pts) |-> r.pts[k].timestamp]

\* The two extractors with a path run over the same path: args are the
\* time of each point, the start and the end of the segment, the number of
\* points and INTERPOLATE_MISSING_TIMESTAMPS.
PathStamps ==
    /\ call.fn = "path"
    /\ call.ret = Pending
    /\ call' = [call EXCEPT !.ret =
                    [semantic |->
                         Stamps(SemanticItem(
                             SemanticPathSegment(call.args[1], call.args[2],
                                                 call.args[3], call.args[4]),
                             [DefaultConfig EXCEPT
                                  !.INTERPOLATE_MISSING_TIMESTAMPS = call.args[5]])),
                     timeline |->
                         Stamps(TimelineItem(
                             RawPathObject(call.args[1], call.args[2],
                                           call.args[3], call.args[4]),
                             [DefaultConfig EXCEPT
                                  !.INTERPOLATE_MISSING_TIMESTAMPS = call.args[5]]))]]
    /\ UNCHANGED <<file, config, pc, handle, opens, detected_format, i, xpoints,
                   origin, points, result, log, run, first, body, main>>

\* A record of a root array and a semantic segment with a visit: the visit
\* holds visitStart as its startTime, the record or segment recordStart.
VisitRecord(visitStart, recordStart) ==
    JDict([startTime |-> recordStart,
           visit |-> JDict([startTime |-> visitStart,
                            topCandidate |-> JDict([placeLocation |-> Geo(Lat1, Lon1)])])])
VisitSegment(visitStart, recordStart) ==
    JDict([startTime |-> recordStart,
           visit |-> JDict([startTime |-> visitStart,
                            topCandidate |-> JDict([placeLocation |->
                                JDict([latLng |-> Geo(Lat1, Lon1)])])])])

\* The root array extractor and the semantic extractor run over a visit
\* with the same two start times: args are the startTime of the visit and
\* that of the record.
VisitStamps ==
    /\ call.fn = "visit"
    /\ call.ret = Pending
    /\ call' = [call EXCEPT !.ret =
                    [root |-> Stamps(RootItem(VisitRecord(call.args[1], call.args[2]),
                                              DefaultConfig)),
                     semantic |-> Stamps(SemanticItem(
                                             VisitSegment(call.args[1], call.args[2]),
                                             DefaultConfig))]]
    /\ UNCHANGED <<file, config, pc, handle, opens, detected_format, i, xpoints,
                   origin, points, result, log, run, first, body, main>>

\* An element of locations with its two time fields.
LocationElement(timestampMs, timestamp) ==
    JDict([latitudeE7 |-> JInt(15000000), longitudeE7 |-> JInt(-25000000),
           timestampMs |-> timestampMs, timestamp |-> timestamp])

\* The body of the loop of _process_locations_format on one element: args
\* are its timestampMs and its timestamp.
LocationStamp ==
    /\ call.fn = "location"
    /\ call.ret = Pending
    /\ call' = [call EXCEPT !.ret =
                    Stamps(LocationsItem(LocationElement(call.args[1], call.args[2])))]
    /\ UNCHANGED <<file, config, pc, handle, opens, detected_format, i, xpoints,
                   origin, points, result, log, run, first, body, main>>

\* What a record holds as the start or the end of its activity.
EndpointTexts ==
    {None, JInt(5), Geo(Lat1, Lon1), Geo(Lat2, Lon2), JStr(Lat1), JStr(<<"g">>)}

\* A record of a root array with an activity.
ActivityRecord(start, end, top_candidate) ==
    JDict([startTime |-> T5, endTime |-> T9,
           activity |-> JDict([start |-> start, end |-> end,
                               topCandidate |-> top_candidate])])

\* The body of the loop of _process_root_array_format on a record with an
\* activity: args are its start, its end and its topCandidate.
ActivityPoints ==
    /\ call.fn = "activity"
    /\ call.ret = Pending
    /\ call' = [call EXCEPT !.ret =
                    RootItem(ActivityRecord(call.args[1], call.args[2], call.args[3]),
                             DefaultConfig)]
    /\ UNCHANGED <<file, config, pc, handle, opens, detected_format, i, xpoints,
                   origin, points, result, log, run, first, body, main>>

UnitCalls ==
    {Call("activity", <<start, end, top_candidate>>) :
         start \in EndpointTexts, end \in EndpointTexts,
         top_candidate \in {Walking, EmptyDict, JInt(7), None}}
    \cup {Call("visit", <<a, b>>) : a \in TimestampLeaves, b \in TimestampLeaves}
    \cup {Call("location", <<a, b>>) : a \in TimestampLeaves, b \in TimestampLeaves}
    \cup {Call("_parse_timestamp", <<x>>) : x \in TimestampInputs}
    \cup {Call("parse_lat_lng_string", <<x>>) : x \in DecoderInputs}
    \cup {Call("path", <<own, start, end, count, flag>>) :
              own \in PathTimes, start \in PathTimes, end \in PathTimes,
              count \in 1..MaxPath, flag \in BOOLEAN}

UnitInit ==
    InitWith({File("missing", <<>>, <<>>, "eof")}, {DefaultConfig}, UnitCalls, {NoMain})

UnitNext ==
    \/ ParseTimestamp
    \/ ParseLatLng
    \/ PathStamps
    \/ VisitStamps
    \/ LocationStamp
    \/ ActivityPoints

\* One call of one of the functions.
UnitSpec == UnitInit /\ [][UnitNext]_vars

(***************************************************************************)
(* Properties.                                                             *)
(***************************************************************************)
Range(s) == {s[k] : k \in 1..Len(s)}

Terminated == pc \in Outcomes

\* Whether element k of the file raises in the body of the extractor's loop.
Raises(k) == body[detected_format][k].exc

\* C1: when the decoder raises IncompleteJSONError after the extractor has
\* appended k >= 1 points, extract_locations returns exactly those points,
\* in their order, and not None.
C1_TruncatedReturnsExtracted ==
    (pc = "Truncated" /\ xpoints # <<>>) => result = JList(xpoints)

\* C2: in each of the four extractors an exception raised by one element is
\* caught in the extractor: the element is reported as skipped and the call
\* does not end in Fatal unless the file could not be opened or the decoder
\* failed after the last element.
C2_RecordFaultsIsolated ==
    /\ \A k \in 1..i :
           (pc # "Start" /\ pc # "Sniffing" /\ Raises(k))
               => Event("record-skipped", k) \in Range(log)
    /\ pc = "Fatal" =>
           \/ file.open # "ok"
           \/ i = Len(file.items) /\ file.tail = "invalid"

\* C3: extract_locations returns a list that is not empty, or None; it
\* returns None whenever points is empty at the end, and on an unknown
\* shape, a missing file and a fatal error.
C3_NonEmptyOrNone ==
    /\ Terminated <=> result # Pending
    /\ result # Pending =>
           \/ result = NoData
           \/ result.t = "list" /\ result.v # <<>>
    /\ (Terminated /\ points = <<>>) => result = NoData
    /\ pc \in {"Unrecognized", "NotFound", "Fatal"} => result = NoData

C3_Witness ==
    /\ pc = "Completed"
    /\ i > 0
    /\ result = NoData

\* The bytes read(4096) returns, by their positions in the file.
ReadPositions ==
    1..(IF Len(file.bytes) < ReadSize THEN Len(file.bytes) ELSE ReadSize)

\* The first byte that read(4096) returns and that is no white space, ""
\* when there is none.
FirstByte ==
    IF \A k \in ReadPositions : file.bytes[k] \in Whitespace
    THEN ""
    ELSE file.bytes[CHOOSE k \in ReadPositions :
                        /\ file.bytes[k] \notin Whitespace
                        /\ \A j \in 1..(k - 1) : file.bytes[j] \in Whitespace]

\* Whether all of key lies in the bytes read.
Occurs(key) ==
    \E k \in ReadPositions :
        /\ k + Len(key) - 1 \in ReadPositions
        /\ \A m \in 1..Len(key) : file.bytes[k + m - 1] = key[m]

Classification ==
    CASE FirstByte = "[" -> "root_array"
      [] FirstByte = "{" /\ Occurs(KeyLocations) -> "locations"
      [] FirstByte = "{" /\ ~Occurs(KeyLocations) /\ Occurs(KeySemanticSegments) ->
             "semanticSegments"
      [] FirstByte = "{" /\ ~Occurs(KeyLocations) /\ ~Occurs(KeySemanticSegments)
             /\ Occurs(KeyTimelineObjects) -> "timelineObjects"
      [] OTHER -> "none"

\* C4: the trimmed first ReadSize bytes are classified as the root array
\* when they start with '[', and when they start with '{' as the first of
\* "locations", "semanticSegments", "timelineObjects" that occurs in them;
\* everything else is not recognized.
C4_Sniffing ==
    (file.open = "ok" /\ pc # "Start" /\ pc # "Sniffing") =>
        /\ detected_format = Classification
        /\ pc = "Unrecognized" <=> Classification = "none"

\* A later key is cut off by the end of the bytes read, and a key of lower
\* priority stands before the one detected.
C4_Witness ==
    /\ pc = "Extracting"
    /\ detected_format = "semanticSegments"
    /\ Occurs(KeyTimelineObjects)
    /\ Contains(file.bytes, KeyLocations)

\* C5: a call that ends in Unrecognized, NotFound or Fatal returns None,
\* whatever was extracted before, and its last diagnostic names the reason.
C5_FailuresReturnNoData ==
    pc \in {"Unrecognized", "NotFound", "Fatal"} =>
        /\ result = NoData
        /\ log # <<>>
        /\ log[Len(log)].kind =
               CASE pc = "Unrecognized" -> "unrecognized"
                 [] pc = "NotFound" -> "not-found"
                 [] OTHER -> "fatal"

C5_Witness ==
    /\ pc = "Fatal"
    /\ xpoints # <<>>
    /\ result = NoData

\* The steps of the state machine of a call.
Edges ==
    { <<"Start", "Sniffing">>, <<"Start", "NotFound">>, <<"Start", "Fatal">>,
      <<"Sniffing", "Extracting">>, <<"Sniffing", "Unrecognized">>,
      <<"Extracting", "Completed">>, <<"Extracting", "Truncated">>,
      <<"Extracting", "Fatal">> }

\* C6: every call reaches one of Completed, Truncated, Unrecognized,
\* NotFound, Fatal and stays there; an extractor runs only for a detected
\* shape, the call moves along Start, Sniffing, Extracting only forwards (so
\* at most one extractor runs), and Completed is reached only when all
\* elements were consumed and the stream ended without a fault.
C6_StateMachine ==
    /\ <>Terminated
    /\ [][Terminated => pc' = pc]_vars
    /\ [][pc' # pc => <<pc, pc'>> \in Edges]_vars
    /\ [](pc = "Extracting" => detected_format \in Formats)
    /\ [][pc = "Extracting" => detected_format' = detected_format]_vars
    /\ [](pc = "Completed" => i = Len(file.items) /\ file.tail = "eof")

C6_Witness ==
    /\ pc = "Completed"
    /\ i = MaxItems
    /\ Event("record-skipped", 1) \in Range(log)

\* C7: the file is opened at most once in a call, and when the call has
\* ended an opened file is closed.
C7_HandleReleased ==
    /\ opens <= 1
    /\ handle = "none" <=> opens = 0
    /\ Terminated => handle # "open"
    /\ pc \in {"Completed", "Truncated", "Unrecognized"} => handle = "closed"
    /\ (pc = "Fatal" /\ file.open = "ok") => handle = "closed"

C7_Witness ==
    /\ pc = "Fatal"
    /\ opens = 1
    /\ i > 0
    /\ handle = "closed"

\* Whether the point p may stand before the point q of the same element.
InElementOrder(p, q) ==
    /\ ~(p.part = "end" /\ q.part = "start")
    /\ (p.part = "path" /\ q.part = "path") => p.idx < q.idx

\* C8: in the returned list the points of an earlier element stand before
\* those of a later one; within an element the start of an activity stands
\* before its end and path points stand in the order of the path.
C8_EncounterOrder ==
    result.t = "list" =>
        /\ Len(origin) = Len(result.v)
        /\ \A a, b \in 1..Len(result.v) :
               a < b => /\ origin[a] <= origin[b]
                        /\ origin[a] = origin[b] =>
                               InElementOrder(result.v[a], result.v[b])

C8_Witness ==
    /\ result.t = "list"
    /\ \E a, b, c \in 1..Len(result.v) :
           /\ origin[a] = 1 /\ result.v[a].part = "start"
           /\ origin[b] = 1 /\ result.v[b].part = "end"
           /\ origin[c] = 2 /\ result.v[c].part = "path" /\ result.v[c].idx = 1

\* C9: a returned point has source 'visit' only if INCLUDE_VISITS is set,
\* 'activity' only if INCLUDE_ACTIVITIES is set, and 'path' only if
\* INCLUDE_RAW_PATH is set, whatever the shape of the file.
C9_FlagsSelectSources ==
    result.t = "list" =>
        \A k \in 1..Len(result.v) :
            /\ result.v[k].source = "visit" => config.INCLUDE_VISITS
            /\ result.v[k].source = "activity" => config.INCLUDE_ACTIVITIES
            /\ result.v[k].source = "path" => config.INCLUDE_RAW_PATH

Returned(fn) == call.fn = fn /\ call.ret # Pending

\* C11: for every integer n >= 0, 0 included, _parse_timestamp(n) is n and
\* _parse_timestamp of the decimal text of n is n.
C11_NumbersAndDigitTexts ==
    Returned("_parse_timestamp") =>
        \A n \in 0..MaxMs :
            call.args[1] \in {JInt(n), JStr(DecimalText(n))} => call.ret = JInt(n)

\* c[k], None where c holds no k.
FieldOf(c, k) == IF k \in DOMAIN c.v THEN c.v[k] ELSE None

\* C12: for a dict c, _parse_timestamp(c) is _parse_timestamp of its
\* timestampMs when that is a timestamp, and _parse_timestamp of its
\* timestamp otherwise.
C12_ContainerRecursion ==
    (Returned("_parse_timestamp") /\ call.args[1].t = "dict") =>
        call.ret = IF _parse_timestamp(FieldOf(call.args[1], "timestampMs")) # None
                   THEN _parse_timestamp(FieldOf(call.args[1], "timestampMs"))
                   ELSE _parse_timestamp(FieldOf(call.args[1], "timestamp"))

\* C13: whatever it is given, _parse_timestamp returns an integer or None
\* and raises nothing.
C13_ParseTimestampTotal ==
    Returned("_parse_timestamp") => call.ret.t \in {"int", "null"}

\* A conversion raised inside the function.
C13_Witness ==
    /\ Returned("_parse_timestamp")
    /\ call.args[1] = JDict([timestampMs |-> JStr(<<"x">>), timestamp |-> JList(<<>>)])
    /\ call.ret = None

\* Whether the characters p .. e - 1 of s are an optional minus sign,
\* digits, a point and digits.
IsNumber(s, p, e) ==
    \E d \in (p + 1)..(e - 2) :
        /\ s[d] = "."
        /\ s[p] \in Digits \/ (s[p] = "-" /\ d > p + 1)
        /\ \A k \in (p + 1)..(e - 1) : k # d => s[k] \in Digits

\* Where a number that starts at p may end, and the end of the longest.
Ends(s, p) == {e \in (p + 3)..(Len(s) + 1) : IsNumber(s, p, e)}
MatchEnd(s, p) == CHOOSE e \in Ends(s, p) : \A f \in Ends(s, p) : f <= e

\* The positions where a number starts.
Starts(s) == {p \in 1..Len(s) : Ends(s, p) # {}}

\* The starts of the matches taken left to right: a start is taken unless
\* it lies inside a match taken before it.
Matches(s) ==
    CHOOSE C \in SUBSET Starts(s) :
        \A p \in Starts(s) :
            p \in C <=> \A q \in C : ~(q < p /\ p < MatchEnd(s, q))

\* The number matched at p.
MatchValue(s, p) == FloatOfMatch(SubSeq(s, p, MatchEnd(s, p) - 1))

\* The pair of the two matches of C, the left one first.
PairOf(s, C) ==
    JList(<<MatchValue(s, CHOOSE p \in C : \A q \in C : p <= q),
            MatchValue(s, CHOOSE p \in C : \A q \in C : q <= p)>>)

\* What the decoder is to make of x.
Decoded(x) ==
    IF x.t = "str" /\ Cardinality(Matches(x.v)) = 2
    THEN PairOf(x.v, Matches(x.v))
    ELSE None

\* C14: the decoder returns the two numbers of a string that holds exactly
\* two matches of -?digits.digits, the left one first, and None for a string
\* with no, one, or three or more matches and for what is no string; both
\* copies of the decoder return the same.
C14_ExactlyTwoMatches ==
    Returned("parse_lat_lng_string") =>
        /\ call.ret.semantic = Decoded(call.args[1])
        /\ call.ret.root = call.ret.semantic

\* Three matches; two of them would make a pair.
C14_Witness ==
    /\ Returned("parse_lat_lng_string")
    /\ call.args[1] = JStr(<<"1", ".", "5", "-", "2", ".", "5", "-", "2", ".", "5">>)
    /\ call.ret.root = None

\* The number of points of the running extractor that come from element k,
\* and the number of record-skipped diagnostics.
PointsOf(k) == Cardinality({a \in 1..Len(origin) : origin[a] = k})
Skips == Cardinality({k \in 1..Len(log) : log[k].kind = "record-skipped"})

\* x[k1][k2]...[kn] where every step is a dict holding the key, None
\* otherwise.
RECURSIVE Path(_, _)
Path(x, keys) ==
    IF keys = <<>> THEN x
    ELSE IF x.t = "dict" /\ Head(keys) \in DOMAIN x.v
         THEN Path(x.v[Head(keys)], Tail(keys))
         ELSE None

\* A record of a root array that misses its fields: no visit with a place
\* and no activity with a start or an end.
Malformed(record) ==
    /\ Path(record, <<"visit", "topCandidate", "placeLocation">>) = None
    /\ Path(record, <<"activity", "start">>) = None
    /\ Path(record, <<"activity", "end">>) = None

\* A record of a root array whose visit holds a place with two numbers.
HasVisitPlace(record) ==
    Decoded(Path(record, <<"visit", "topCandidate", "placeLocation">>)) # None

\* A run over a root array, with visits and activities included.
RootArrayRun ==
    /\ detected_format = "root_array"
    /\ pc \in {"Extracting", "Completed", "Truncated", "Fatal"}
    /\ config.INCLUDE_VISITS
    /\ config.INCLUDE_ACTIVITIES

C16_SourceAndPlace ==
    result.t = "list" =>
        \A k \in 1..Len(result.v) :
            /\ result.v[k].source \in {"path", "visit", "activity"}
            /\ result.v[k].placeID # None => result.v[k].source = "visit"

\* A visit with its place identifier next to a point without one.
C16_Witness ==
    /\ result.t = "list"
    /\ \E a, b \in 1..Len(result.v) :
           /\ result.v[a].source = "visit"
           /\ result.v[a].placeID = JStr(<<"p">>)
           /\ result.v[b].source = "activity"
           /\ result.v[b].placeID = None

\* A float between 0 and 1.
InUnit(p) == p.t = "float" /\ 0 <= p.v[1] /\ p.v[1] <= Pow10(p.v[2])

\* C17: every returned point has a probability between 0 and 1, which is
\* 0.0 when the record provides none: for every path and activity point,
\* for every point of a locations or timelineObjects file, and for a visit
\* whose topCandidate holds no probability.
C17_ProbabilityInUnit ==
    result.t = "list" =>
        \A k \in 1..Len(result.v) :
            /\ InUnit(result.v[k].probability)
            /\ \/ result.v[k].source \in {"path", "activity"}
               \/ detected_format \in {"locations", "timelineObjects"}
               \/ Path(file.items[origin[k]],
                       <<"visit", "topCandidate", "probability">>) = None
               => result.v[k].probability = Zero

\* Whether the program recovers a time from x.
Known(x) == _parse_timestamp(x) # None

\* Whether r is an integer nearest to s + (e - s) * idx / d.
Nearest(r, s, e, idx, d) ==
    /\ r.t = "int"
    /\ 2 * (r.v * d - (s * d + (e - s) * idx)) <= d
    /\ 2 * ((s * d + (e - s) * idx) - r.v * d) <= d

\* Whether the k-th timestamp of a returned path call is the nearest
\* integer to the interpolation formula, in both extractors.
NearestAt(k) ==
    \A ext \in {"semantic", "timeline"} :
        Nearest(call.ret[ext][k],
                _parse_timestamp(call.args[2]).v, _parse_timestamp(call.args[3]).v,
                k - 1, IF call.args[4] - 1 > 1 THEN call.args[4] - 1 ELSE 1)

\* C18: with interpolation enabled and the start and the end of the
\* segment known, the point at index idx of a path of count points that
\* has no timestamp of its own gets start + (end - start) * idx /
\* max(count - 1, 1) rounded to the nearest millisecond (0, 50, 100 for
\* three points between 0 and 100).
C18_InterpolationNearest ==
    (/\ Returned("path")
     /\ call.args[1] = None
     /\ call.args[5]
     /\ Known(call.args[2])
     /\ Known(call.args[3])) =>
        /\ Len(call.ret.semantic) = call.args[4]
        /\ Len(call.ret.timeline) = call.args[4]
        /\ \A k \in 1..call.args[4] : NearestAt(k)

\* C19: a path point without a timestamp of its own gets an interpolated
\* one if and only if INTERPOLATE_MISSING_TIMESTAMPS is set and the start
\* and the end of the segment are both known, the epoch included; otherwise
\* its timestamp stays None.
C19_InterpolatedIffKnown ==
    (Returned("path") /\ call.args[1] = None) =>
        \A ext \in {"semantic", "timeline"} :
            \A k \in 1..Len(call.ret[ext]) :
                call.ret[ext][k] # None
                    <=> (call.args[5] /\ Known(call.args[2]) /\ Known(call.args[3]))

\* C20: the two extractors give the points of the same path the same
\* timestamps, and a point with a recoverable timestamp of its own keeps
\* it.
C20_SamePathRule ==
    Returned("path") =>
        /\ call.ret.semantic = call.ret.timeline
        /\ Known(call.args[1]) =>
               \A ext \in {"semantic", "timeline"} :
                   \A k \in 1..Len(call.ret[ext]) :
                       call.ret[ext][k] = _parse_timestamp(call.args[1])

\* Whether record is an object that holds key.
Holds(record, key) == record.t = "dict" /\ key \in DOMAIN record.v

\* The sources of the points that come from element k.
SourcesOf(k) == {xpoints[a].source : a \in {b \in 1..Len(origin) : origin[b] = k}}

\* A run over a semanticSegments file.
SemanticRun ==
    /\ detected_format = "semanticSegments"
    /\ pc \in {"Extracting", "Completed", "Truncated", "Fatal"}

\* C21: the points of a semantic segment all have one source, that of the
\* part chosen in the order timelinePath, visit, activity: visit points only
\* if no timelinePath was taken, activity points only if neither a
\* timelinePath nor a visit was taken.
C21_OneSourcePerSegment ==
    SemanticRun =>
        \A k \in 1..i :
            /\ Cardinality(SourcesOf(k)) <= 1
            /\ "path" \in SourcesOf(k) => Holds(file.items[k], "timelinePath")
            /\ "visit" \in SourcesOf(k) =>
                   /\ Holds(file.items[k], "visit")
                   /\ ~(config.INCLUDE_RAW_PATH /\ Holds(file.items[k], "timelinePath"))
            /\ "activity" \in SourcesOf(k) =>
                   /\ Holds(file.items[k], "activity")
                   /\ ~(config.INCLUDE_RAW_PATH /\ Holds(file.items[k], "timelinePath"))
                   /\ ~(config.INCLUDE_VISITS /\ Holds(file.items[k], "visit"))

\* A segment with the three parts gives its path points only.
C21_Witness ==
    /\ SemanticRun
    /\ pc = "Completed"
    /\ file.items = <<SemanticSegment({"timelinePath", "visit", "activity"})>>
    /\ SourcesOf(1) = {"path"}
    /\ PointsOf(1) = 2

\* A segment that holds a timelinePath and neither a visit nor an activity.
OnlyPath(segment) ==
    /\ Holds(segment, "timelinePath")
    /\ ~Holds(segment, "visit")
    /\ ~Holds(segment, "activity")

\* C22, in a state: with INCLUDE_RAW_PATH off a segment with only a
\* timelinePath gives no point and no record-skipped diagnostic, and every
\* later segment is processed: a visit with a place after it gives its
\* point.
PathOnlySkippedSilently ==
    (SemanticRun /\ ~config.INCLUDE_RAW_PATH) =>
        \A k \in 1..i :
            OnlyPath(file.items[k]) =>
                /\ PointsOf(k) = 0
                /\ Event("record-skipped", k) \notin Range(log)
                /\ pc = "Completed" => i = Len(file.items)
                /\ \A j \in (k + 1)..i :
                       (config.INCLUDE_VISITS
                        /\ file.items[j] = SemanticSegment({"visit"})) => PointsOf(j) = 1

\* C22, in a step: processing such a segment leaves the points accumulated
\* so far as they are.
PathOnlyKeepsPoints ==
    (/\ SemanticRun
     /\ ~config.INCLUDE_RAW_PATH
     /\ i' = i + 1
     /\ i < Len(file.items)
     /\ OnlyPath(file.items[i + 1])) => (xpoints' = xpoints /\ origin' = origin)

\* C22: in a semanticSegments file processed with INCLUDE_RAW_PATH off, a
\* segment that holds only a timelinePath contributes no point, prints no
\* record-skipped diagnostic and leaves the points accumulated so far
\* unchanged, and the segments after it are still processed and contribute
\* their points.
C22_SuppressedPathSegment == [](PathOnlySkippedSilently) /\ [][PathOnlyKeepsPoints]_vars

\* A path segment suppressed by the option, then a visit that gives a point.
C22_Witness ==
    /\ SemanticRun
    /\ pc = "Completed"
    /\ ~config.INCLUDE_RAW_PATH
    /\ file.items = <<SemanticSegment({"timelinePath"}), SemanticSegment({"visit"})>>
    /\ Len(xpoints) = 1
    /\ origin = <<2>>

\* The time the program recovers from a, or from b if it recovers none
\* from a.
Preferred(a, b) == IF Known(a) THEN _parse_timestamp(a) ELSE _parse_timestamp(b)

\* C23: the timestamp of a visit point, in a root array and in semantic
\* segments, is the time recovered from the startTime of the visit if there
\* is one, otherwise the time recovered from the startTime of the record or
\* segment, and None only if neither gives a time.
C23_VisitStartPreferred ==
    Returned("visit") =>
        /\ call.ret.root = <<Preferred(call.args[1], call.args[2])>>
        /\ call.ret.semantic = <<Preferred(call.args[1], call.args[2])>>

\* C26: the timestamp of a locations point is the time recovered from
\* timestampMs if there is one, otherwise the time recovered from
\* timestamp: it is known whenever one of the two fields gives a time.
C26_EitherTimeField ==
    Returned("location") =>
        call.ret = <<Preferred(call.args[1], call.args[2])>>

\* The fields of the points pts that the program fills, without the tags
\* of the model.
Fields(pts) ==
    [k \in 1..Len(pts) |->
        [lat |-> pts[k].lat, lon |-> pts[k].lon, timestamp |-> pts[k].timestamp,
         placeID |-> pts[k].placeID, semanticType |-> pts[k].semanticType,
         probability |-> pts[k].probability, source |-> pts[k].source]]

\* The activity point for the coordinate text x and the time ms, if x
\* decodes.
EndpointFor(x, ms, top_candidate) ==
    IF Decoded(x) = None THEN <<>>
    ELSE <<[lat |-> Decoded(x).v[1], lon |-> Decoded(x).v[2], timestamp |-> JInt(ms),
            placeID |-> None,
            semanticType |->
                JStr(<<"Activity (">>
                     \o (IF "type" \in DOMAIN top_candidate.v
                         THEN top_candidate.v["type"].v ELSE <<"Unknown">>)
                     \o <<")">>),
            probability |-> Zero, source |-> "activity"]>>

LocationsRun ==
    /\ detected_format = "locations"
    /\ pc \in {"Extracting", "Completed", "Truncated", "Fatal"}

\* Whether the float f is n * 1e-7.
ScaledBy7(f, n) == f.t = "float" /\ f.v[2] <= 7 /\ f.v[1] * Pow10(7 - f.v[2]) = n

\* Whether p is the point of the locations element loc.
LocationPoint(p, loc) ==
    /\ ScaledBy7(p.lat, loc.v["latitudeE7"].v)
    /\ ScaledBy7(p.lon, loc.v["longitudeE7"].v)
    /\ p.source = "path"
    /\ p.semanticType = JStr(<<"Location">>)
    /\ p.placeID = None
    /\ p.probability = Zero

\* C25: in a locations file an element that holds latitudeE7 and
\* longitudeE7, both integers, gives exactly one point, with lat and lon the
\* two fields times 1e-7, source path, the label Location, no placeID and
\* probability 0.0; an element without one of the fields gives no point;
\* the list returned has as many points as the file has elements with both
\* fields.
C25_LocationsPoints ==
    LocationsRun =>
        /\ \A k \in 1..i :
               /\ (/\ Holds(file.items[k], "latitudeE7")
                   /\ Holds(file.items[k], "longitudeE7")
                   /\ file.items[k].v["latitudeE7"].t = "int"
                   /\ file.items[k].v["longitudeE7"].t = "int") =>
                      /\ PointsOf(k) = 1
                      /\ \A a \in 1..Len(origin) :
                             origin[a] = k => LocationPoint(xpoints[a], file.items[k])
               /\ ~(/\ Holds(file.items[k], "latitudeE7")
                    /\ Holds(file.items[k], "longitudeE7")) => PointsOf(k) = 0
        /\ result.t = "list" =>
               Len(result.v) =
                   Cardinality({k \in 1..Len(file.items) :
                                    /\ Holds(file.items[k], "latitudeE7")
                                    /\ Holds(file.items[k], "longitudeE7")})

\* An element with both fields and one without longitudeE7: one point.
C25_Witness ==
    /\ LocationsRun
    /\ pc = "Completed"
    /\ Len(file.items) = 2
    /\ Holds(file.items[1], "longitudeE7")
    /\ file.items[2] = JDict([latitudeE7 |-> JInt(15000000)])
    /\ result.t = "list"
    /\ Len(result.v) = 1

\* C27: an element whose extraction raised and that was skipped has no
\* point in the list returned: what was appended for it before the
\* exception is not kept.
C27_SkippedLeavesNoPoint ==
    result.t = "list" =>
        \A k \in 1..i :
            Event("record-skipped", k) \in Range(log) => PointsOf(k) = 0

\* The kinds of an element in the order in which the extractor of fmt tests
\* them.
KindOrder(fmt) ==
    CASE fmt = "root_array" -> <<"visit", "activity">>
      [] fmt = "semanticSegments" -> <<"timelinePath", "visit", "activity">>
      [] fmt = "timelineObjects" -> <<"placeVisit", "activitySegment">>
      [] OTHER -> <<>>

\* Whether the flag of kind is set and record holds kind.
Selected(kind, record) ==
    /\ Holds(record, kind)
    /\ CASE kind \in {"visit", "placeVisit"} -> config.INCLUDE_VISITS
         [] kind \in {"activity", "activitySegment"} -> config.INCLUDE_ACTIVITIES
         [] OTHER -> config.INCLUDE_RAW_PATH

\* The first kind of order that is selected in record, "none" if there is
\* none.
FirstSelected(order, record) ==
    IF \E n \in 1..Len(order) : Selected(order[n], record)
    THEN order[CHOOSE n \in 1..Len(order) :
                   /\ Selected(order[n], record)
                   /\ \A m \in 1..(n - 1) : ~Selected(order[m], record)]
    ELSE "none"

\* The sources of the points a kind can give.
SourcesFor(kind) ==
    CASE kind = "timelinePath" -> {"path"}
      [] kind \in {"visit", "placeVisit"} -> {"visit"}
      [] kind = "activity" -> {"activity"}
      [] kind = "activitySegment" -> {"activity", "path"}
      [] OTHER -> {}

\* The elements of the model that hold every kind of their format.
AllKinds ==
    { RootRecord({"visit", "activity"}),
      SemanticSegment({"timelinePath", "visit", "activity"}),
      TimelineObject({"placeVisit", "activitySegment"}) }

\* C28: the points of an element come from the first kind, in the order of
\* its extractor, that the element holds and whose flag is set; a kind
\* whose flag is off counts as absent, so that an element with every kind
\* gives points as long as one of its flags is set.
C28_FirstEnabledKind ==
    (/\ detected_format \in {"root_array", "semanticSegments", "timelineObjects"}
     /\ pc \in {"Extracting", "Completed", "Truncated", "Fatal"}) =>
        \A k \in 1..i :
            /\ SourcesOf(k)
                   \subseteq SourcesFor(FirstSelected(KindOrder(detected_format),
                                                      file.items[k]))
            /\ (/\ file.items[k] \in AllKinds
                /\ FirstSelected(KindOrder(detected_format), file.items[k]) # "none")
                   => PointsOf(k) > 0

\* With INCLUDE_VISITS off a record with a visit and an activity gives its
\* activity points.
C28_Witness ==
    /\ detected_format = "root_array"
    /\ pc = "Completed"
    /\ ~config.INCLUDE_VISITS
    /\ file.items = <<RootRecord({"visit", "activity"})>>
    /\ SourcesOf(1) = {"activity"}
    /\ PointsOf(1) = 2

\* C29: in a timelineObjects file a point of source path is there only if
\* INCLUDE_ACTIVITIES and INCLUDE_RAW_PATH are both set, and never comes
\* from an object handled as a placeVisit.
C29_RawPathInsideActivity ==
    (/\ detected_format = "timelineObjects"
     /\ pc \in {"Extracting", "Completed", "Truncated", "Fatal"}) =>
        \A k \in 1..i :
            "path" \in SourcesOf(k) =>
                /\ config.INCLUDE_ACTIVITIES
                /\ config.INCLUDE_RAW_PATH
                /\ Holds(file.items[k], "activitySegment")
                /\ ~(config.INCLUDE_VISITS /\ Holds(file.items[k], "placeVisit"))

\* The raw path of an activitySegment, read with both flags set.
C29_Witness ==
    /\ detected_format = "timelineObjects"
    /\ pc = "Completed"
    /\ config.INCLUDE_ACTIVITIES
    /\ config.INCLUDE_RAW_PATH
    /\ file.items = <<TimelineObject({"activitySegment"})>>
    /\ SourcesOf(1) = {"activity", "path"}
    /\ PointsOf(1) = 5

\* C30, in a state: create_html_file is called only with the non-empty
\* list extract_locations returned, open_in_browser only after it, the
\* file is written and the viewer opened by them only, and after None
\* neither is called.
MainCallsGuarded ==
    /\ "create_html_file" \in Range(main.calls) =>
           /\ pc \in Outcomes
           /\ result.t = "list"
           /\ result.v # <<>>
           /\ main.html = result
    /\ "open_in_browser" \in Range(main.calls) =>
           main.calls = <<"create_html_file", "open_in_browser">>
    /\ main.html # None => "create_html_file" \in Range(main.calls)
    /\ main.opened => "open_in_browser" \in Range(main.calls)
    /\ (pc \in Outcomes /\ result = NoData) =>
           (main.calls = <<>> /\ main.html = None /\ ~main.opened)

====
